---- MODULE Spec2Model ----
(***************************************************************************)
(* A model of src/generate_reports.py: the text-to-domain parser           *)
(* (parse_input_file and the helpers it calls).                            *)
(*                                                                         *)
(* A text is a sequence of characters, each character a one-element        *)
(* string; a character outside ASCII is written by its code point name     *)
(* ("U+00A0").  The regular expressions of the source are kept as pattern  *)
(* terms and matched by a backtracking matcher with the priority order of  *)
(* Python's re module (leftmost start, greedy quantifiers first).          *)
(***************************************************************************)
EXTENDS Integers, Sequences, FiniteSets, TLC

(***************************************************************************)
(* Characters.                                                             *)
(***************************************************************************)
Digit == {"0", "1", "2", "3", "4", "5", "6", "7", "8", "9"}

Lower == {"a", "b", "c", "d", "e", "f", "g", "h", "i", "j", "k", "l", "m",
          "n", "o", "p", "q", "r", "s", "t", "u", "v", "w", "x", "y", "z"}

Upper == {"A", "B", "C", "D", "E", "F", "G", "H", "I", "J", "K", "L", "M",
          "N", "O", "P", "Q", "R", "S", "T", "U", "V", "W", "X", "Y", "Z"}

\* \w of a str pattern
WordCh == Digit \cup Lower \cup Upper \cup {"_"}

\* the characters normalize_unicode turns into a space
UniSpace == {"U+2009", "U+200A", "U+202F", "U+00A0", "U+2000", "U+2001",
             "U+2002", "U+2003", "U+2004", "U+2005", "U+2006", "U+2007",
             "U+2008", "U+2028", "U+2029"}

\* the characters normalize_unicode deletes
UniZero == {"U+200B", "U+200C", "U+200D", "U+FEFF", "U+202A", "U+202B",
            "U+202C", "U+202D", "U+202E", "U+2066", "U+2067", "U+2068",
            "U+2069", "U+200E", "U+200F"}

\* the characters normalize_unicode turns into "-"
UniDash == {"U+2011", "U+2012", "U+2013", "U+2014", "U+2015", "U+2212",
            "U+FE63", "U+FF0D", "U+00AD", "U+2010"}

\* \s of a str pattern, and what str.strip() removes: every character of
\* UniSpace is white space for Python, none of UniZero or UniDash is
SpaceCh == {" "} \cup UniSpace

\* a str or a list given by its elements, built in full
AsList(f) == f \o <<>>

\* a statement after an assignment: x has its value before e is evaluated
Then(x, e) == IF x = x THEN e ELSE e

\* str.lower() on one character
LowerOf(c) ==
    IF c \in Upper
    THEN CHOOSE l \in Lower :
            \E k \in 1..26 :
                /\ <<"A","B","C","D","E","F","G","H","I","J","K","L","M",
                     "N","O","P","Q","R","S","T","U","V","W","X","Y","Z">>[k] = c
                /\ <<"a","b","c","d","e","f","g","h","i","j","k","l","m",
                     "n","o","p","q","r","s","t","u","v","w","x","y","z">>[k] = l
    ELSE c

(***************************************************************************)
(* Pattern terms.                                                          *)
(***************************************************************************)
Cls(S)  == [t |-> "cls", s |-> S, neg |-> FALSE]    \* [...] , a literal
NCls(S) == [t |-> "cls", s |-> S, neg |-> TRUE]     \* [^...]
Cat(rs) == [t |-> "cat", rs |-> rs]                 \* r1 r2 ... rn
Rep(r, lo, hi) == [t |-> "rep", r |-> r, lo |-> lo, hi |-> hi, lazy |-> FALSE]
Lazy(r, lo, hi) == [t |-> "rep", r |-> r, lo |-> lo, hi |-> hi, lazy |-> TRUE]
Grp(r)  == [t |-> "grp", r |-> r]                   \* ( ... ), group 1
Alt(a, b) == [t |-> "alt", a |-> a, b |-> b]        \* a|b
Ahead(r) == [t |-> "ahead", r |-> r]                \* (?=r)
Bnd == [t |-> "bnd"]                                \* \b
Bol == [t |-> "bol"]                                \* ^
Eol == [t |-> "eol"]                                \* $

\* hi = -1: no upper limit
Star(r) == Rep(r, 0, -1)
Plus(r) == Rep(r, 1, -1)
Opt(r)  == Rep(r, 0, 1)
Times(r, n) == Rep(r, n, n)

Ch(c)  == Cls({c})
\* a run of literal characters, and the same under re.IGNORECASE
Lit(str)  == [t |-> "lit", str |-> str, ci |-> FALSE]
LitI(str) == [t |-> "lit", str |-> str, ci |-> TRUE]

D  == Cls(Digit)        \* \d
S  == Cls(SpaceCh)      \* \s
W  == Cls(WordCh)       \* \w

(***************************************************************************)
(* The matcher.  M(r, s, i) is the sequence of the ways r matches s from   *)
(* position i, in the order a backtracking matcher tries them; a way is    *)
(* <<end, gs, ge>>: the position after the match and the span [gs, ge) of  *)
(* group 1 (gs = 0: the group did not take part).                          *)
(***************************************************************************)
IsWord(s, i) == i >= 1 /\ i <= Len(s) /\ s[i] \in WordCh

Keep(cur, res) ==
    IF res[2] # 0 THEN res ELSE <<res[1], cur[2], cur[3]>>

RECURSIVE Join(_, _, _)
\* the lists ls[lo..hi], one after the other
Join(ls, lo, hi) ==
    IF lo > hi THEN <<>>
    ELSE IF lo = hi THEN ls[lo]
    ELSE Join(ls, lo, (lo + hi) \div 2) \o Join(ls, (lo + hi) \div 2 + 1, hi)

RECURSIVE M(_, _, _)
RECURSIVE MCat(_, _, _, _)
RECURSIVE MCatEach(_, _, _, _, _)
RECURSIVE MRep(_, _, _, _, _, _)
RECURSIVE MRepEach(_, _, _, _, _, _, _, _)
RECURSIVE MRepRun(_, _, _, _, _, _, _)

\* rs[k..] after cur
MCat(rs, k, s, cur) ==
    IF k > Len(rs) THEN <<cur>>
    ELSE MCatEach(M(rs[k], s, cur[1]), rs, k, s, cur)

MCatEach(ways, rs, k, s, cur) ==
    Join(AsList([w \in 1..Len(ways) |->
                    MCat(rs, k + 1, s, Keep(cur, ways[w]))]), 1, Len(ways))

MRep(r, lo, hi, lazy, s, cur) ==
    LET InOrder(more, stop) == IF lazy THEN stop \o more ELSE more \o stop
    IN  InOrder(IF hi = 0 THEN <<>>
                ELSE MRepEach(M(r, s, cur[1]), r, lo, hi, lazy, s, cur[1], cur),
                IF lo = 0 THEN <<cur>> ELSE <<>>)

MRepEach(ways, r, lo, hi, lazy, s, i, cur) ==
    Join(AsList([w \in 1..Len(ways) |->
                    IF ways[w][1] > i
                    THEN MRep(r, IF lo > 0 THEN lo - 1 ELSE 0,
                              IF hi > 0 THEN hi - 1 ELSE hi, lazy, s,
                              Keep(cur, ways[w]))
                    ELSE <<>>]), 1, Len(ways))

\* a quantifier on a character class: the run of such characters from i has
\* a length n, and the ways are the counts min(n, hi) down to lo, or from lo
\* up when the quantifier is lazy
MRepCls(c, lo, hi, lazy, s, i) ==
    LET In(k) == (s[k] \in c.s) # c.neg
        Counts(most) ==
            IF most < lo THEN <<>>
            ELSE AsList([k \in 1..(most - lo + 1) |->
                            <<IF lazy THEN i + lo + k - 1 ELSE i + most + 1 - k,
                              0, 0>>])
        UpTo(n) == Counts(IF hi >= 0 /\ hi < n THEN hi ELSE n)
    IN  UpTo(CHOOSE n \in 0..(Len(s) + 1 - i) :
                /\ \A k \in i..(i + n - 1) : In(k)
                /\ (i + n = Len(s) + 1 \/ ~In(i + n)))

RECURSIVE Width(_)
RECURSIVE WidthSum(_, _)
\* the number of characters every match of r takes, when r is made of
\* classes, literals and exact counts only and so matches in one way at
\* most; -1 for any other pattern
Width(r) ==
    CASE r.t = "cls" -> 1
      [] r.t = "lit" -> Len(r.str)
      [] r.t = "cat" -> WidthSum(r.rs, 1)
      [] r.t = "rep" ->
            IF r.lo = r.hi /\ Width(r.r) >= 0 THEN r.lo * Width(r.r) ELSE -1
      [] OTHER -> -1

WidthSum(rs, k) ==
    IF k > Len(rs) THEN 0
    ELSE IF Width(rs[k]) < 0 \/ WidthSum(rs, k + 1) < 0 THEN -1
    ELSE Width(rs[k]) + WidthSum(rs, k + 1)

\* a quantifier on a pattern r of the fixed width w > 0: r matches n times
\* in a row from the position of cur, and the ways are the counts
\* min(n, hi) down to lo, or from lo up when the quantifier is lazy
MRepRun(r, w, lo, hi, lazy, s, cur) ==
    LET At(k) == M(r, s, cur[1] + k * w) # <<>>
        Counts(most) ==
            IF most < lo THEN <<>>
            ELSE AsList([k \in 1..(most - lo + 1) |->
                            <<cur[1] + w * (IF lazy THEN lo + k - 1
                                            ELSE most + 1 - k),
                              cur[2], cur[3]>>])
        UpTo(n) == Counts(IF hi >= 0 /\ hi < n THEN hi ELSE n)
    IN  UpTo(CHOOSE n \in 0..((Len(s) + 1 - cur[1]) \div w + 1) :
                /\ ~At(n)
                /\ \A k \in 0..(n - 1) : At(k))

\* the ways of a group: the span of the group is the span of its match
MGrp(ways, i) ==
    AsList([k \in 1..Len(ways) |-> <<ways[k][1], i, ways[k][1]>>])

M(r, s, i) ==
    CASE r.t = "cls" ->
            IF i <= Len(s) /\ ((s[i] \in r.s) # r.neg)
            THEN << <<i + 1, 0, 0>> >> ELSE <<>>
      [] r.t = "lit" ->
            IF /\ i + Len(r.str) <= Len(s) + 1
               /\ \A k \in 1..Len(r.str) :
                     IF r.ci THEN LowerOf(s[i + k - 1]) = LowerOf(r.str[k])
                     ELSE s[i + k - 1] = r.str[k]
            THEN << <<i + Len(r.str), 0, 0>> >> ELSE <<>>
      [] r.t = "cat" -> MCat(r.rs, 1, s, <<i, 0, 0>>)
      [] r.t = "rep" ->
            IF r.r.t = "cls" THEN MRepCls(r.r, r.lo, r.hi, r.lazy, s, i)
            ELSE IF Width(r.r) > 0
            THEN MRepRun(r.r, Width(r.r), r.lo, r.hi, r.lazy, s, <<i, 0, 0>>)
            ELSE MRep(r.r, r.lo, r.hi, r.lazy, s, <<i, 0, 0>>)
      [] r.t = "grp" -> MGrp(M(r.r, s, i), i)
      [] r.t = "alt" -> M(r.a, s, i) \o M(r.b, s, i)
      [] r.t = "ahead" ->
            IF M(r.r, s, i) # <<>> THEN << <<i, 0, 0>> >> ELSE <<>>
      [] r.t = "bnd" ->
            IF IsWord(s, i - 1) # IsWord(s, i)
            THEN << <<i, 0, 0>> >> ELSE <<>>
      [] r.t = "bol" -> IF i = 1 THEN << <<i, 0, 0>> >> ELSE <<>>
      [] r.t = "eol" -> IF i = Len(s) + 1 THEN << <<i, 0, 0>> >> ELSE <<>>

\* A match: [st, en) is the matched span, [gs, ge) the span of group 1.
NoMatch == [st |-> 0, en |-> 0, gs |-> 0, ge |-> 0]

\* the match that starts at i, of the first of the ways
FirstWay(ways, i) ==
    IF ways = <<>> THEN NoMatch
    ELSE [st |-> i, en |-> ways[1][1], gs |-> ways[1][2], ge |-> ways[1][3]]

\* re.match(r, s) from position i
MatchAt(r, s, i) == FirstWay(M(r, s, i), i)

\* re.search(r, s) with the scan starting at position i: the match at the
\* leftmost of the positions from i where r matches
SearchFrom(r, s, i) ==
    IF \E j \in i..(Len(s) + 1) : M(r, s, j) # <<>>
    THEN MatchAt(r, s, CHOOSE j \in i..(Len(s) + 1) :
                          /\ M(r, s, j) # <<>>
                          /\ \A k \in i..(j - 1) : M(r, s, k) = <<>>)
    ELSE NoMatch

Search(r, s) == SearchFrom(r, s, 1)

RECURSIVE FindAllFrom(_, _, _)
RECURSIVE FindAllAfter(_, _, _)
\* list(re.finditer(r, s)): the non-overlapping matches, left to right
FindAllFrom(r, s, i) == FindAllAfter(r, s, SearchFrom(r, s, i))

FindAllAfter(r, s, m) ==
    IF m.st = 0 THEN <<>>
    ELSE <<m>> \o FindAllFrom(r, s, IF m.en > m.st THEN m.en ELSE m.en + 1)

FindAll(r, s) == FindAllFrom(r, s, 1)

Slice(s, a, b) == SubSeq(s, a, b - 1)       \* s[a:b], positions from 1

RECURSIVE SubFrom(_, _, _, _)
RECURSIVE SubAfter(_, _, _, _, _)
\* re.sub(r, repl, s), repl a plain text
SubFrom(r, repl, s, i) == SubAfter(r, repl, s, i, SearchFrom(r, s, i))

SubAfter(r, repl, s, i, m) ==
    IF m.st = 0 THEN Slice(s, i, Len(s) + 1)
    ELSE Slice(s, i, m.st) \o repl
         \o (IF m.en > m.st THEN SubFrom(r, repl, s, m.en)
             ELSE IF m.en <= Len(s)
                  THEN <<s[m.en]>> \o SubFrom(r, repl, s, m.en + 1)
                  ELSE <<>>)

Sub(r, repl, s) == SubFrom(r, repl, s, 1)

\* s.replace(old, new), old not empty
Replace(s, old, new) == Sub(Lit(old), new, s)

\* old in s
Contains(s, old) == Search(Lit(old), s).st # 0

\* s.startswith(p)
StartsWith(s, p) == Len(s) >= Len(p) /\ SubSeq(s, 1, Len(p)) = p

\* s.strip(): from the first to the last character that is not white space
Strip(s) ==
    LET Span(keep) ==
            IF keep = {} THEN <<>>
            ELSE SubSeq(s, CHOOSE a \in keep : \A k \in keep : a <= k,
                           CHOOSE b \in keep : \A k \in keep : k <= b)
    IN  Span({k \in 1..Len(s) : s[k] \notin SpaceCh})

\* s.lower()
ToLower(s) == AsList([k \in 1..Len(s) |-> LowerOf(s[k])])

(***************************************************************************)
(* float: IEEE 754 binary64 with round-half-even.  A number is written in  *)
(* base 1024, least significant digit first, so that no intermediate       *)
(* value is limited by the width of the integers of the checker.  A float  *)
(* is [m, e], the number m * 2^e, m of at most 53 binary digits.           *)
(***************************************************************************)
RECURSIVE Pow2(_)
Pow2(k) == IF k = 0 THEN 1 ELSE 2 * Pow2(k - 1)

Base == Pow2(10)

RECURSIVE Pow10(_)
Pow10(k) == IF k = 0 THEN 1 ELSE 10 * Pow10(k - 1)

RECURSIVE BitLen(_)
BitLen(n) == IF n = 0 THEN 0 ELSE 1 + BitLen(n \div 2)

RECURSIVE BigOf(_)
BigOf(n) == IF n = 0 THEN <<>> ELSE <<n % Base>> \o BigOf(n \div Base)

RECURSIVE BigVal(_)
BigVal(b) == IF b = <<>> THEN 0 ELSE Head(b) + Base * BigVal(Tail(b))

RECURSIVE BigTrim(_)
BigTrim(b) ==
    IF b # <<>> /\ b[Len(b)] = 0 THEN BigTrim(SubSeq(b, 1, Len(b) - 1)) ELSE b

BigBitLen(b) ==
    IF b = <<>> THEN 0 ELSE 10 * (Len(b) - 1) + BitLen(b[Len(b)])

RECURSIVE MulRange(_, _, _, _, _)
\* the digits b[lo..hi] times c, after the digits st.q and with st.carry
\* carried in
MulRange(b, lo, hi, c, st) ==
    IF lo > hi THEN st
    ELSE IF lo = hi
    THEN LET One(v) == [q |-> Append(st.q, v % Base), carry |-> v \div Base]
         IN  One(b[lo] * c + st.carry)
    ELSE LET Rest(low) ==
                 Then(low, MulRange(b, (lo + hi) \div 2 + 1, hi, c, low))
         IN  Rest(MulRange(b, lo, (lo + hi) \div 2, c, st))

\* b * c + carry
BigMul(b, c, carry) ==
    LET Out(st) == st.q \o BigOf(st.carry)
    IN  Out(MulRange(b, 1, Len(b), c, [q |-> <<>>, carry |-> carry]))

RECURSIVE DivRange(_, _, _, _, _)
\* the digits b[lo..hi], from the highest down, divided by d below the
\* running remainder st.r; st.q holds the digits of the quotient so far
DivRange(b, lo, hi, d, st) ==
    IF lo > hi THEN st
    ELSE IF lo = hi
    THEN LET One(v) == [q |-> <<v \div d>> \o st.q, r |-> v % d]
         IN  One(Base * st.r + b[lo])
    ELSE LET Rest(high) ==
                 Then(high, DivRange(b, lo, (lo + hi) \div 2, d, high))
         IN  Rest(DivRange(b, (lo + hi) \div 2 + 1, hi, d, st))

\* the digits b[1..k] below a running remainder rem, divided by d
BigDiv(b, k, d, rem) == DivRange(b, 1, k, d, [q |-> <<>>, r |-> rem])

\* b * 2^n
BigShl(b, n) == [k \in 1..(n \div 10) |-> 0] \o BigMul(b, Pow2(n % 10), 0)

\* b \div 2^n, and whether a remainder was dropped
BigShr(b, n) ==
    LET Out(low, qr) == [q |-> BigTrim(qr.q), lost |-> low \/ qr.r # 0]
        High(hi) == BigDiv(hi, Len(hi), Pow2(n % 10), 0)
    IN  Out(\E k \in 1..(n \div 10) : k <= Len(b) /\ b[k] # 0,
            High(IF n \div 10 >= Len(b) THEN <<>>
                 ELSE SubSeq(b, n \div 10 + 1, Len(b))))

\* the nearest float to x * 2^e, or to a number just above it when sticky
RoundFloat(x, sticky, e) ==
    LET Up(top, guard, rest, drop) ==
            [m |-> IF guard = 1 /\ (rest \/ top[1] % 2 = 1)
                   THEN BigTrim(BigMul(top, 1, 1)) ELSE top,
             e |-> e + drop]
        Shifted(y, drop) ==
            Up(BigShr(y.q, 1).q, y.q[1] % 2, sticky \/ y.lost, drop)
        Trimmed(b, drop) ==
            IF drop <= 0 THEN [m |-> b, e |-> e]
            ELSE Shifted(BigShr(b, drop - 1), drop)
        Of(b) == Trimmed(b, BigBitLen(b) - 53)
    IN  Of(BigTrim(x))

RECURSIVE DigitsRange(_, _, _, _)
\* the number the digits ds[lo..hi] write, after acc
DigitsRange(ds, lo, hi, acc) ==
    IF lo > hi THEN acc
    ELSE IF lo = hi
    THEN BigMul(acc, 10, CHOOSE v \in 0..9 :
             <<"0","1","2","3","4","5","6","7","8","9">>[v + 1] = ds[lo])
    ELSE LET Right(left) ==
                 Then(left, DigitsRange(ds, (lo + hi) \div 2 + 1, hi, left))
         IN  Right(DigitsRange(ds, lo, (lo + hi) \div 2, acc))

\* the number a digit string writes, after acc
DigitsBig(ds, acc) == DigitsRange(ds, 1, Len(ds), acc)

\* float(str) for str = digits, optionally "." and digits
PyFloat(str) ==
    LET Quot(qr, sh) == RoundFloat(qr.q, qr.r # 0, 0 - sh)
        Div(big, den, sh) == Quot(BigDiv(big, Len(big), den, 0), sh)
        Scaled(num, den, sh) == Div(BigShl(num, sh), den, sh)
        Ratio(num, den) == Scaled(num, den, 54 + BitLen(den))
        Parts(ip, fp) ==
            Ratio(BigTrim(DigitsBig(ip \o fp, <<>>)), Pow10(Len(fp)))
        Split(dot) ==
            Parts(IF dot.st = 0 THEN str ELSE Slice(str, 1, dot.st),
                  IF dot.st = 0 THEN <<>> ELSE Slice(str, dot.en, Len(str) + 1))
    IN  Split(Search(Ch("."), str))

\* x * c for a float x and an int c that a float holds exactly
FloatMul(x, c) == RoundFloat(BigMul(x.m, c, 0), FALSE, x.e)

\* int(x) for a float x >= 0
FloatInt(x) ==
    IF x.e >= 0 THEN BigVal(BigShl(x.m, x.e))
    ELSE BigVal(BigShr(x.m, 0 - x.e).q)

(***************************************************************************)
(* extract_price and the item name.                                        *)
(***************************************************************************)
\* None where the other results are numbers, and where they are texts
NoneInt == -1
NoneText == <<"None">>

\* \d+[,\.]?\d*
Numeral == Cat(<<Plus(D), Opt(Cls({",", "."})), Star(D)>>)

\* (\d+[,\.]?\d*)\s*jt\b   with re.IGNORECASE
JtPattern == Cat(<<Grp(Numeral), Star(S), LitI(<<"j", "t">>), Bnd>>)

\* (\d+[,\.]?\d*)\s*rb\b   with re.IGNORECASE
RbPattern == Cat(<<Grp(Numeral), Star(S), LitI(<<"r", "b">>), Bnd>>)

\* (\d{1,3}(?:\.\d{3})+(?:,\d+)?)
long_number_pattern ==
    Grp(Cat(<<Rep(D, 1, 3), Plus(Cat(<<Ch("."), Times(D, 3)>>)),
              Opt(Cat(<<Ch(","), Plus(D)>>))>>))

Group1(m, s) == Slice(s, m.gs, m.ge)

\* the float x is inf: the nearest double would need an exponent above 1023
\* (float() and * give inf then, and int(inf) raises OverflowError)
Overflows(x) == BigBitLen(x.m) + x.e > 1024

\* TryInt changed: a number that cannot be converted counts as 0
TryIntZero(x) == IF Overflows(x) THEN 0 ELSE FloatInt(x)

\* int(x) inside try/except: NoneInt when int() raises
TryInt(x) == IF Overflows(x) THEN NoneInt ELSE FloatInt(x)

\* lambda m: float(m.group(1).replace(',', '.')) * mult, then int(...)
Converter(m, s, mult) ==
    TryInt(FloatMul(PyFloat(Replace(Group1(m, s), <<",">>, <<".">>)), mult))

\* the (pattern, converter) list of extract_price, in its order
patterns == << [p |-> JtPattern, mult |-> 1000000],
               [p |-> RbPattern, mult |-> 1000] >>

RECURSIVE SuffixPrice(_, _, _)
\* the loop over the list: the first pattern that matches and converts
\* decides
SuffixPrice(ps, k, text) ==
    IF k > Len(ps) THEN NoneInt
    ELSE LET Tried(v) == IF v # NoneInt THEN v ELSE SuffixPrice(ps, k + 1, text)
             Found(m) == IF m.st # 0 THEN Tried(Converter(m, text, ps[k].mult))
                         ELSE SuffixPrice(ps, k + 1, text)
         IN  Found(Search(ps[k].p, text))

LongNumberPrice(text) ==
    LET Found(m) ==
            IF m.st # 0
            THEN TryInt(PyFloat(Replace(Replace(Group1(m, text), <<".">>, <<>>),
                                        <<",">>, <<".">>)))
            ELSE NoneInt
    IN  Found(Search(long_number_pattern, text))

extract_price(text) ==
    LET Else(p) == IF p # NoneInt THEN p ELSE LongNumberPrice(text)
    IN  Else(SuffixPrice(patterns, 1, text))

\* the three removal patterns of remove_price_from_item_name, in its order
price_patterns ==
    << Cat(<<Star(S), Numeral, Star(S), LitI(<<"j", "t">>), Bnd>>),
       Cat(<<Star(S), Numeral, Star(S), LitI(<<"r", "b">>), Bnd>>),
       Cat(<<Star(S), Rep(D, 1, 3), Plus(Cat(<<Ch("."), Times(D, 3)>>)),
             Opt(Cat(<<Ch(","), Plus(D)>>))>>) >>

RECURSIVE RemoveEach(_, _, _)
RemoveEach(ps, k, text) ==
    IF k > Len(ps) THEN text
    ELSE RemoveEach(ps, k + 1, Strip(Sub(ps[k], <<>>, text)))

remove_price_from_item_name(text) == RemoveEach(price_patterns, 1, text)

\* re.sub(r'\s+\([^)]*\)\s*$', '', text).strip()
remove_notes_from_item_name(text) ==
    Strip(Sub(Cat(<<Plus(S), Ch("("), Star(NCls({")"})), Ch(")"), Star(S), Eol>>),
              <<>>, text))

(***************************************************************************)
(* The fields of a customer line.                                          *)
(***************************************************************************)
RECURSIVE DigitsVal(_, _)
\* int(str) for a digit string, after acc
DigitsVal(ds, acc) ==
    IF ds = <<>> THEN acc
    ELSE DigitsVal(Tail(ds),
                   10 * acc + (CHOOSE v \in 0..9 :
                       <<"0","1","2","3","4","5","6","7","8","9">>[v + 1] = Head(ds)))

\* \(\+\s*(\d+)\s*\w*\)
quantity_pattern ==
    Cat(<<Ch("("), Ch("+"), Star(S), Grp(Plus(D)), Star(S), Star(W), Ch(")")>>)

\* returns (quantity, cleaned_name)
extract_quantity_from_customer_name(text) ==
    LET Found(m) ==
            IF m.st # 0
            THEN [quantity |-> DigitsVal(Group1(m, text), 0),
                  cleaned |-> Strip(Sub(quantity_pattern, <<>>, text))]
            ELSE [quantity |-> NoneInt, cleaned |-> text]
    IN  Found(Search(quantity_pattern, text))

\* \(([^)]+)\)
notes_pattern == Cat(<<Ch("("), Grp(Plus(NCls({")"}))), Ch(")")>>)

\* ^\+\s*\d+   on the content of a parenthetical
IsQuantityFormat(content) ==
    MatchAt(Cat(<<Bol, Ch("+"), Star(S), Plus(D)>>), content, 1).st # 0

\* re.sub(r'\s+', ' ', text).strip()
NormalizeSpaces(text) == Strip(Sub(Plus(S), <<" ">>, text))

RECURSIVE NotesFrom(_, _, _)
\* the loop over reversed(matches), at matches[k]
NotesFrom(matches, k, text) ==
    IF k = 0 THEN [notes |-> NoneText, cleaned |-> text]
    ELSE LET Note(m, content) ==
                 IF ~IsQuantityFormat(content)
                 THEN [notes |-> <<"(">> \o content \o <<")">>,
                       cleaned |->
                           NormalizeSpaces(Strip(
                               Strip(Slice(text, 1, m.st)) \o <<" ">>
                               \o Strip(Slice(text, m.en, Len(text) + 1))))]
                 ELSE NotesFrom(matches, k - 1, text)
         IN  Note(matches[k], Strip(Group1(matches[k], text)))

\* returns (notes, cleaned_name)
extract_notes_from_customer_name(text) ==
    LET Last(matches) == NotesFrom(matches, Len(matches), text)
    IN  Last(FindAll(notes_pattern, text))

\* the zero-width and directional characters are deleted
DropZero(text) ==
    LET NotZero(c) == c \notin UniZero
    IN  SelectSeq(text, NotZero)

normalize_unicode(text) ==
    LET Mapped(kept) ==
            AsList([k \in 1..Len(kept) |->
                       IF kept[k] \in UniSpace THEN " "
                       ELSE IF kept[k] \in UniDash THEN "-"
                       ELSE kept[k]])
    IN  Mapped(DropZero(text))

\* normalize_phone changed: a phone that starts with 62 is left as it is
normalize_phone_keep62(phone) ==
    IF phone = NoneText \/ phone = <<>> THEN NoneText
    ELSE LET Lead(std) ==
                 IF ~StartsWith(std, <<"0">>) THEN <<"0">> \o std ELSE std
             Std(clean) ==
                 Lead(IF StartsWith(clean, <<"+", "6", "2">>)
                      THEN Replace(clean, <<"+", "6", "2">>, <<"0">>)
                      ELSE clean)
         IN  Std(Sub(NCls(Digit \cup {"+"}), <<>>, phone))

\* returns the phone for comparison, or None
normalize_phone(phone) ==
    IF phone = NoneText \/ phone = <<>> THEN NoneText
    ELSE LET Lead(std) ==
                 IF ~StartsWith(std, <<"0">>) THEN <<"0">> \o std ELSE std
             Std(clean) ==
                 Lead(IF StartsWith(clean, <<"+", "6", "2">>)
                      THEN Replace(clean, <<"+", "6", "2">>, <<"0">>)
                      ELSE IF StartsWith(clean, <<"6", "2">>)
                      THEN <<"0">> \o Slice(clean, 3, Len(clean) + 1)
                      ELSE clean)
         IN  Std(Sub(NCls(Digit \cup {"+"}), <<>>, phone))

normalize_customer_name(name) ==
    IF name = <<>> THEN <<>> ELSE ToLower(Strip(name))

get_customer_key(name, phone) ==
    LET Key(normalized_phone, normalized_name) ==
            IF normalized_phone # NoneText /\ normalized_phone # <<>>
            THEN normalized_phone \o <<"_">> \o normalized_name
            ELSE <<"N", "O", "_", "P", "H", "O", "N", "E", "_">>
                 \o normalized_name
    IN  Key(normalize_phone(phone), normalize_customer_name(name))

Sep == Cls({"-", ".", " "} \cup UniSpace)    \* [-.\s]
Plus62 == <<Lit(<<"+", "6", "2">>)>>         \* \+62
Dash == Ch("-")

\* the list phone_patterns, in its order
phone_patterns ==
    << Grp(Cat(Plus62 \o <<Plus(S), Times(D, 3), Dash, Times(D, 4), Dash, Times(D, 4)>>)),
       Grp(Cat(Plus62 \o <<Plus(S), Times(D, 3), Dash, Times(D, 4), Dash, Times(D, 3)>>)),
       Grp(Cat(Plus62 \o <<Plus(S), Times(D, 3), Dash, Times(D, 3), Dash, Times(D, 3)>>)),
       Grp(Cat(Plus62 \o <<Plus(S), Times(D, 2), Dash, Times(D, 4), Dash, Times(D, 4)>>)),
       Grp(Cat(Plus62 \o <<Plus(S), Times(D, 3), Plus(S), Times(D, 4), Plus(S), Times(D, 4)>>)),
       Grp(Cat(Plus62 \o <<Plus(S), Times(D, 2), Plus(S), Times(D, 4), Plus(S), Times(D, 4)>>)),
       Grp(Cat(Plus62 \o <<Plus(S), Rep(D, 2, 3), Sep, Rep(D, 3, 4), Sep, Rep(D, 3, 4),
                          Sep, Rep(D, 3, 4)>>)),
       Grp(Cat(Plus62 \o <<Star(S), Rep(D, 2, 3), Opt(Sep), Rep(D, 3, 4), Opt(Sep),
                          Rep(D, 3, 4), Opt(Sep), Rep(D, 3, 4)>>)),
       Grp(Cat(<<Ch("0"), Rep(D, 2, 3), Opt(Sep), Rep(D, 3, 4), Opt(Sep), Rep(D, 3, 4),
                 Opt(Sep), Rep(D, 3, 4)>>)),
       Cat(<<Grp(Cat(<<Ch("0"), Rep(D, 10, 12)>>)), Ahead(Alt(S, Eol))>>) >>

RECURSIVE AllMatches(_, _, _)
\* all_matches: the matches of every pattern, pattern after pattern
AllMatches(ps, k, text) ==
    IF k > Len(ps) THEN <<>>
    ELSE FindAll(ps[k], text) \o AllMatches(ps, k + 1, text)

\* MaxByEnd changed: the last of those that end last
MaxByEndLast(ms) ==
    LET top == CHOOSE e \in {ms[k].en : k \in 1..Len(ms)} :
                   \A k \in 1..Len(ms) : ms[k].en <= e
        last == CHOOSE k \in 1..Len(ms) :
                   ms[k].en = top /\ \A j \in (k + 1)..Len(ms) : ms[j].en # top
    IN  ms[last]

\* max(all_matches, key=lambda m: m.end()): the first of those that end last
MaxByEnd(ms) ==
    LET top == CHOOSE e \in {ms[k].en : k \in 1..Len(ms)} :
                   \A k \in 1..Len(ms) : ms[k].en <= e
        first == CHOOSE k \in 1..Len(ms) :
                   ms[k].en = top /\ \A j \in 1..(k - 1) : ms[j].en # top
    IN  ms[first]

\* a phone that starts with 0, written as +62 with dashes
DisplayPhone(phone) ==
    IF StartsWith(phone, <<"0">>)
    THEN LET Written(ds) ==
                 IF Len(ds) \in {9, 10, 11}
                 THEN <<"+", "6", "2", " ">> \o SubSeq(ds, 1, 3) \o <<"-">>
                      \o SubSeq(ds, 4, 7) \o <<"-">> \o SubSeq(ds, 8, Len(ds))
                 ELSE phone
             Of(digits) ==
                 IF Len(digits) >= 10 /\ StartsWith(digits, <<"0">>)
                 THEN Written(Tail(digits))
                 ELSE phone
         IN  Of(Sub(NCls(Digit), <<>>, phone))
    ELSE phone

\* phone_match: the match that is taken for the phone, NoMatch for None
PhoneMatch(customer_text) ==
    LET Of(all_matches) ==
            IF all_matches # <<>> THEN MaxByEnd(all_matches) ELSE NoMatch
    IN  Of(AllMatches(phone_patterns, 1, customer_text))

\* phone_match.group(1).strip(), the phone as it is written in the text
PhoneToken(phone_match, customer_text) == Strip(Group1(phone_match, customer_text))

\* name and phone of the cleaned customer text
SplitNamePhone(customer_text) ==
    LET At(phone_match) ==
            IF phone_match # NoMatch
            THEN [name |-> Strip(Slice(customer_text, 1, phone_match.st)),
                  phone |-> DisplayPhone(PhoneToken(phone_match, customer_text))]
            ELSE [name |-> Strip(customer_text), phone |-> NoneText]
    IN  At(PhoneMatch(customer_text))

\* the checkbox or list marker of a customer line
Classify(line) ==
    IF Contains(line, <<"-", " ", "[", "x", "]">>)
    THEN [checked |-> TRUE,
          text |-> Strip(Replace(line, <<"-", " ", "[", "x", "]">>, <<>>))]
    ELSE IF Contains(line, <<"-", " ", "[", " ", "]">>)
            \/ Contains(line, <<"-", " ", "[", "]">>)
    THEN [checked |-> FALSE,
          text |-> Strip(Replace(Replace(line, <<"-", " ", "[", " ", "]">>, <<>>),
                                 <<"-", " ", "[", "]">>, <<>>))]
    ELSE IF MatchAt(Cat(<<Bol, Plus(D), Ch(".")>>), line, 1).st # 0
    THEN [checked |-> FALSE,
          text |-> Strip(Sub(Cat(<<Bol, Plus(D), Ch("."), Star(S)>>), <<>>, line))]
    ELSE IF StartsWith(line, <<"-", " ">>)
    THEN [checked |-> FALSE, text |-> Strip(Replace(line, <<"-", " ">>, <<>>))]
    ELSE [checked |-> FALSE, text |-> line]

Paren == <<Ch("("), Star(NCls({")"})), Ch(")")>>     \* \([^)]*\)
Ok == LitI(<<"o", "k">>)

\* the removal of "ok" and of what is left in parentheses, then of double spaces
CleanOk(text) ==
    LET T5(t) == Then(t, NormalizeSpaces(t))
        T4(t) == Then(t, T5(Strip(Sub(Cat(<<Plus(S), Ok, Star(S), Eol>>), <<>>, t))))
        T3(t) == Then(t, T4(Strip(Sub(Cat(<<Star(S)>> \o Paren \o <<Star(S), Eol>>),
                                      <<>>, t))))
        T2(t) == Then(t, T3(Strip(Sub(Cat(<<Star(S)>> \o Paren \o <<Ok, Star(S), Eol>>),
                                      <<>>, t))))
        T1(t) == Then(t, T2(Strip(Sub(Cat(<<Star(S)>> \o Paren
                                          \o <<Star(S), Ok, Star(S), Eol>>),
                                      <<>>, t))))
    IN  T1(Strip(Sub(Cat(<<Plus(S), Ok, Star(S), Ch("(")>>), <<" ", "(">>, text)))

\* the customer branch of the loop body up to the split of name and phone:
\* checked, quantity, notes and what is left of customer_text
CustomerText(line) ==
    LET Cleaned(checked, quantity, notes, customer_text) ==
            [checked |-> checked, quantity |-> quantity, notes |-> notes,
             text |-> customer_text]
        WithNotes(checked, quantity, n) ==
            Then(n, Cleaned(checked, quantity, n.notes, CleanOk(n.cleaned)))
        WithText(checked, quantity, customer_text) ==
            Then(customer_text,
                 WithNotes(checked, quantity,
                           IF checked
                           THEN extract_notes_from_customer_name(customer_text)
                           ELSE [notes |-> NoneText, cleaned |-> customer_text]))
        WithQuantity(checked, text0, q) ==
            Then(q, WithText(checked,
                             IF q.quantity = NoneInt THEN 1 ELSE q.quantity,
                             IF q.quantity = NoneInt THEN text0 ELSE q.cleaned))
        Normal(checked, text0) ==
            Then(text0, WithQuantity(checked, text0,
                                     extract_quantity_from_customer_name(text0)))
        Of(cls) == Then(cls, Normal(cls.checked, normalize_unicode(cls.text)))
    IN  Of(Classify(line))

\* the customer branch of the loop body, up to the test of checked
ParseCustomer(line) ==
    LET Entry(f, np) ==
            [checked |-> f.checked, name |-> np.name, phone |-> np.phone,
             quantity |-> f.quantity, notes |-> f.notes]
        Of(f) == Then(f, Entry(f, SplitNamePhone(f.text)))
    IN  Of(CustomerText(line))

(***************************************************************************)
(* The loop of parse_input_file.                                           *)
(***************************************************************************)
\* "Product REQUEST cek harga"
SkipMarker ==
    <<"P", "r", "o", "d", "u", "c", "t", " ", "R", "E", "Q", "U", "E", "S", "T",
      " ", "c", "e", "k", " ", "h", "a", "r", "g", "a">>

\* ParseLine changed: the test of the price stands before the test of the marker
ParseLinePriceFirst(raw) ==
    LET Kind(stripped, line, found) ==
            IF stripped = <<>> THEN [kind |-> "empty"]
            ELSE IF found # NoneInt
            THEN [kind |-> "item", price |-> found,
                  name |-> remove_notes_from_item_name(
                               remove_price_from_item_name(line))]
            ELSE IF Contains(line, SkipMarker) THEN [kind |-> "marker"]
            ELSE [kind |-> "customer", entry |-> ParseCustomer(line)]
        Normal(stripped, line) == Kind(stripped, line, extract_price(line))
        Of(stripped) == Normal(stripped, normalize_unicode(stripped))
    IN  Of(Strip(raw))

\* What one line of the file is to the loop, by the tests of the loop body in
\* their order: an empty line, a line with the marker, a line with a price
\* (an item line), and any other line (a customer line).
ParseLine(raw) ==
    LET Kind(stripped, line, found) ==
            IF stripped = <<>> THEN [kind |-> "empty"]
            ELSE IF Contains(line, SkipMarker) THEN [kind |-> "marker"]
            ELSE IF found # NoneInt
            THEN [kind |-> "item", price |-> found,
                  name |-> remove_notes_from_item_name(
                               remove_price_from_item_name(line))]
            ELSE [kind |-> "customer", entry |-> ParseCustomer(line)]
        Normal(stripped, line) ==
            Then(line, Kind(stripped, line, extract_price(line)))
        Of(stripped) == Then(stripped, Normal(stripped, normalize_unicode(stripped)))
    IN  Of(Strip(raw))

(***************************************************************************)
(* The input: the lines a document of the model is written with.           *)
(***************************************************************************)
\* '999' and 102 times '.999': read as a float it is above the largest
\* double, so that float() gives inf and int() raises OverflowError
HugeNumber ==
    <<"9", "9", "9">> \o [k \in 1..408 |-> IF k % 4 = 1 THEN "." ELSE "9"]

Lines ==
    <<
      \* 1: 'Box of crackers 150rb'
      <<"B", "o", "x", " ", "o", "f", " ", "c", "r", "a", "c", "k", "e", "r",
        "s", " ", "1", "5", "0", "r", "b">>,
      \* 2: '- [x] Alice +62 811-2222-3333'
      <<"-", " ", "[", "x", "]", " ", "A", "l", "i", "c", "e", " ", "+", "6",
        "2", " ", "8", "1", "1", "-", "2", "2", "2", "2", "-", "3", "3", "3",
        "3">>,
      \* 3: '- [ ] Bob 0812-1111-2222'
      <<"-", " ", "[", " ", "]", " ", "B", "o", "b", " ", "0", "8", "1", "2",
        "-", "1", "1", "1", "1", "-", "2", "2", "2", "2">>,
      \* 4: '- [x] Carol (+3 box) 0813-4444-5555 (urgent)'
      <<"-", " ", "[", "x", "]", " ", "C", "a", "r", "o", "l", " ", "(", "+",
        "3", " ", "b", "o", "x", ")", " ", "0", "8", "1", "3", "-", "4", "4",
        "4", "4", "-", "5", "5", "5", "5", " ", "(", "u", "r", "g", "e", "n",
        "t", ")">>,
      \* 5: '- [x] Budi +62 812-3456-7890'
      <<"-", " ", "[", "x", "]", " ", "B", "u", "d", "i", " ", "+", "6", "2",
        " ", "8", "1", "2", "-", "3", "4", "5", "6", "-", "7", "8", "9", "0">>,
      \* 6: '- [x] BUDI 081234567890'
      <<"-", " ", "[", "x", "]", " ", "B", "U", "D", "I", " ", "0", "8", "1",
        "2", "3", "4", "5", "6", "7", "8", "9", "0">>,
      \* 7: 'Product REQUEST cek harga 25rb'
      <<"P", "r", "o", "d", "u", "c", "t", " ", "R", "E", "Q", "U", "E", "S",
        "T", " ", "c", "e", "k", " ", "h", "a", "r", "g", "a", " ", "2", "5",
        "r", "b">>,
      \* 8: 'Towel 125rb (note)'
      <<"T", "o", "w", "e", "l", " ", "1", "2", "5", "r", "b", " ", "(", "n",
        "o", "t", "e", ")">>,
      \* 9: '  '
      <<" ", " ">>,
      \* 10: 'Towel (red) 109rb'
      <<"T", "o", "w", "e", "l", " ", "(", "r", "e", "d", ")", " ", "1", "0",
        "9", "r", "b">>,
      \* 11: '- [x] Budi (+0 box)'
      <<"-", " ", "[", "x", "]", " ", "B", "u", "d", "i", " ", "(", "+", "0",
        " ", "b", "o", "x", ")">>,
      \* 12: '- [x] Dodi (+10 big box)'
      <<"-", " ", "[", "x", "]", " ", "D", "o", "d", "i", " ", "(", "+", "1",
        "0", " ", "b", "i", "g", " ", "b", "o", "x", ")">>,
      \* 13: '- [x] Dodi (+10 box) (merah)'
      <<"-", " ", "[", "x", "]", " ", "D", "o", "d", "i", " ", "(", "+", "1",
        "0", " ", "b", "o", "x", ")", " ", "(", "m", "e", "r", "a", "h", ")">>,
      \* 14: '- [x] Dodi (merah) (+10 box)'
      <<"-", " ", "[", "x", "]", " ", "D", "o", "d", "i", " ", "(", "m", "e",
        "r", "a", "h", ")", " ", "(", "+", "1", "0", " ", "b", "o", "x", ")">>,
      \* 15: '- [ ] Bob (+2 box) 0812-1111-2222 (urgent)'
      <<"-", " ", "[", " ", "]", " ", "B", "o", "b", " ", "(", "+", "2", " ",
        "b", "o", "x", ")", " ", "0", "8", "1", "2", "-", "1", "1", "1", "1",
        "-", "2", "2", "2", "2", " ", "(", "u", "r", "g", "e", "n", "t", ")">>,
      \* 16: '- [x] Budi 0812345678901'
      <<"-", " ", "[", "x", "]", " ", "B", "u", "d", "i", " ", "0", "8",
        "1", "2", "3", "4", "5", "6", "7", "8", "9", "0", "1">>,
      \* 17: 'Towel 125rb (a) (b)'
      <<"T", "o", "w", "e", "l", " ", "1", "2", "5", "r", "b", " ", "(",
        "a", ")", " ", "(", "b", ")">>,
      \* 18: 'Kain 1.000 thread 50rb'
      <<"K", "a", "i", "n", " ", "1", ".", "0", "0", "0", " ", "t", "h",
        "r", "e", "a", "d", " ", "5", "0", "r", "b">>,
      \* 19: 'Ani - [x] Budi'
      <<"A", "n", "i", " ", "-", " ", "[", "x", "]", " ", "B", "u", "d",
        "i">>,
      \* 20: '- [x] Budi +62 081-234-567-890'
      <<"-", " ", "[", "x", "]", " ", "B", "u", "d", "i", " ", "+", "6",
        "2", " ", "0", "8", "1", "-", "2", "3", "4", "-", "5", "6", "7",
        "-", "8", "9", "0">>,
      \* 21: '- [x] Budi +62 812-3456-7890 rumah'
      <<"-", " ", "[", "x", "]", " ", "B", "u", "d", "i", " ", "+", "6", "2",
        " ", "8", "1", "2", "-", "3", "4", "5", "6", "-", "7", "8", "9", "0",
        " ", "r", "u", "m", "a", "h">>,
      \* 22: '- [x] 081234567890'
      <<"-", " ", "[", "x", "]", " ", "0", "8", "1", "2", "3", "4", "5",
        "6", "7", "8", "9", "0">>,
      \* 23: 'Product REQUEST cek harga'
      <<"P", "r", "o", "d", "u", "c", "t", " ", "R", "E", "Q", "U", "E", "S",
        "T", " ", "c", "e", "k", " ", "h", "a", "r", "g", "a">>,
      \* 24: '- [x] Budi 999.999. ... .999', a grouped number of 309 digits
      <<"-", " ", "[", "x", "]", " ", "B", "u", "d", "i", " ">> \o HugeNumber
    >>

\* A document is written with the lines of one family.
Families == <<{1, 2, 3, 4, 7, 9, 24},
              {1, 5, 6, 16, 18, 22},
              {8, 10, 11, 12, 13, 14, 15},
              {1, 17, 19, 20, 21, 23}>>

\* the longest document
MaxDoc == 4

\* every line of the input, parsed once
Parsed == AsList([k \in 1..Len(Lines) |-> ParseLine(Lines[k])])

VARIABLES
    items,          \* the list items
    customers,      \* the dict customers: key -> [name, phone]
    current_item,   \* <<>> for None, or <<item>>
    skip_section,   \* the flag skip_section
    doc,            \* the lines read so far, as indices of Lines
    eof,            \* the loop is over and the last item is appended
    toks,           \* the text handed to extract_price, token by token
    price,          \* what extract_price returned for it, <<>> before the call
    reports,        \* the totals of the reports written so far
    calls           \* the calls of get_customer_key made so far

vars == <<items, customers, current_item, skip_section, doc, eof, toks, price,
          reports, calls>>

docVars == <<items, customers, current_item, skip_section, doc, eof>>

InitDoc ==
    /\ items = <<>>
    /\ customers = <<>>
    /\ current_item = <<>>
    /\ skip_section = FALSE
    /\ doc = <<>>
    /\ eof = FALSE

\* no report is written yet
NoReports == [billing |-> <<>>, spender |-> <<>>, omzet |-> <<>>]

Init ==
    InitDoc /\ toks = <<>> /\ price = <<>> /\ reports = NoReports /\ calls = <<>>

\* Register changed: an entry without a phone is not registered
RegisterWithPhone(reg, key, entry) ==
    IF key \in DOMAIN reg \/ entry.phone = NoneText THEN reg
    ELSE [c \in DOMAIN reg \cup {key} |->
            IF c = key THEN [name |-> entry.name, phone |-> entry.phone]
            ELSE reg[c]]

\* Register changed: the record of a key is written again by every entry
RegisterLast(reg, key, entry) ==
    [c \in DOMAIN reg \cup {key} |->
        IF c = key THEN [name |-> entry.name, phone |-> entry.phone]
        ELSE reg[c]]

\* customers[customer_key] = {...} when customer_key not in customers
Register(reg, key, entry) ==
    IF key \in DOMAIN reg THEN reg
    ELSE [c \in DOMAIN reg \cup {key} |->
            IF c = key THEN [name |-> entry.name, phone |-> entry.phone]
            ELSE reg[c]]

\* LoopBody changed: the entry is stored without the test of checked
LoopBodyUnchecked(p) ==
    IF p.kind = "empty"
    THEN UNCHANGED <<items, customers, current_item, skip_section>>
    ELSE IF p.kind = "marker"
    THEN /\ skip_section' = TRUE
         /\ UNCHANGED <<items, customers, current_item>>
    ELSE IF skip_section
    THEN UNCHANGED <<items, customers, current_item, skip_section>>
    ELSE IF p.kind = "item"
    THEN /\ items' = IF current_item # <<>>
                     THEN Append(items, current_item[1]) ELSE items
         /\ current_item' = << [name |-> p.name, price |-> p.price,
                                customers |-> <<>>] >>
         /\ UNCHANGED <<customers, skip_section>>
    ELSE IF current_item = <<>>
    THEN UNCHANGED <<items, customers, current_item, skip_section>>
    ELSE /\ customers' = Register(customers,
                                  get_customer_key(p.entry.name, p.entry.phone),
                                  p.entry)
         /\ current_item' =
               << [current_item[1] EXCEPT !.customers = Append(@, p.entry)] >>
         /\ UNCHANGED <<items, skip_section>>

\* LoopBody changed: a checked customer is registered before the test of
\* current_item
LoopBodyRegisterFirst(p) ==
    IF p.kind = "empty"
    THEN UNCHANGED <<items, customers, current_item, skip_section>>
    ELSE IF p.kind = "marker"
    THEN /\ skip_section' = TRUE
         /\ UNCHANGED <<items, customers, current_item>>
    ELSE IF skip_section
    THEN UNCHANGED <<items, customers, current_item, skip_section>>
    ELSE IF p.kind = "item"
    THEN /\ items' = IF current_item # <<>>
                     THEN Append(items, current_item[1]) ELSE items
         /\ current_item' = << [name |-> p.name, price |-> p.price,
                                customers |-> <<>>] >>
         /\ UNCHANGED <<customers, skip_section>>
    ELSE IF p.entry.checked
    THEN /\ customers' = Register(customers,
                                  get_customer_key(p.entry.name, p.entry.phone),
                                  p.entry)
         /\ current_item' =
               IF current_item = <<>> THEN current_item
               ELSE << [current_item[1] EXCEPT !.customers = Append(@, p.entry)] >>
         /\ UNCHANGED <<items, skip_section>>
    ELSE UNCHANGED <<items, customers, current_item, skip_section>>

\* The body of the loop for a line that parses to p.
LoopBody(p) ==
    IF p.kind = "empty"
    THEN UNCHANGED <<items, customers, current_item, skip_section>>
    ELSE IF p.kind = "marker"
    THEN /\ skip_section' = TRUE
         /\ UNCHANGED <<items, customers, current_item>>
    ELSE IF skip_section
    THEN UNCHANGED <<items, customers, current_item, skip_section>>
    ELSE IF p.kind = "item"
    THEN /\ items' = IF current_item # <<>>
                     THEN Append(items, current_item[1]) ELSE items
         /\ current_item' = << [name |-> p.name, price |-> p.price,
                                customers |-> <<>>] >>
         /\ UNCHANGED <<customers, skip_section>>
    ELSE IF current_item = <<>>
    THEN UNCHANGED <<items, customers, current_item, skip_section>>
    ELSE IF p.entry.checked
    THEN /\ customers' = Register(customers,
                                  get_customer_key(p.entry.name, p.entry.phone),
                                  p.entry)
         /\ current_item' =
               << [current_item[1] EXCEPT !.customers = Append(@, p.entry)] >>
         /\ UNCHANGED <<items, skip_section>>
    ELSE UNCHANGED <<items, customers, current_item, skip_section>>

\* One turn of the loop, on line k of the input.
ReadLine(k) ==
    /\ ~eof
    /\ Len(doc) < MaxDoc
    /\ \E f \in 1..Len(Families) :
          k \in Families[f] /\ \A j \in 1..Len(doc) : doc[j] \in Families[f]
    /\ doc' = Append(doc, k)
    /\ LoopBody(Parsed[k])
    /\ UNCHANGED <<eof, toks, price, reports, calls>>

\* EndOfInput changed: the item still open is not appended
EndOfInputNoAppend ==
    /\ ~eof
    /\ eof' = TRUE
    /\ UNCHANGED <<items, customers, current_item, skip_section, doc, toks, price,
                   reports, calls>>

\* The end of the file: the last item is appended.
EndOfInput ==
    /\ ~eof
    /\ eof' = TRUE
    /\ items' = IF current_item # <<>> THEN Append(items, current_item[1]) ELSE items
    /\ UNCHANGED <<customers, current_item, skip_section, doc, toks, price, reports,
                   calls>>

(***************************************************************************)
(* The reports of main: the totals that generate_billing_report,           *)
(* generate_top_spender_report and generate_total_omzet_report compute     *)
(* from the items and the customers of parse_input_file.                   *)
(***************************************************************************)
RECURSIVE SumOf(_, _)
\* the sum of f over the members of set
SumOf(f, set) ==
    IF set = {} THEN 0
    ELSE LET x == CHOOSE x \in set : TRUE
         IN  f[x] + SumOf(f, set \ {x})

RECURSIVE Entries(_, _)
\* for item in items: for customer_entry in item['customers']: the entries
\* with the place of their item, from item n on
Entries(its, n) ==
    IF n > Len(its) THEN <<>>
    ELSE AsList([m \in 1..Len(its[n].customers) |->
                    [item |-> n, entry |-> its[n].customers[m]]])
         \o Entries(its, n + 1)

\* those with customer_entry['checked']
CheckedEntries(its) == SelectSeq(Entries(its, 1), LAMBDA e : e.entry.checked)

\* the customer_key of each of them
EntryKeys(es) ==
    AsList([i \in 1..Len(es) |->
               get_customer_key(es[i].entry.name, es[i].entry.phone)])

\* the item name with the notes of the entry
NameWithNotes(item_name, notes) ==
    IF notes # NoneText /\ notes # <<>> THEN item_name \o <<" ">> \o notes
    ELSE item_name

\* customer_purchases, entry after entry, each with its customer_key
customer_purchases(its, es, ks) ==
    AsList([i \in 1..Len(es) |->
               [key |-> ks[i],
                item_name |-> NameWithNotes(its[es[i].item].name, es[i].entry.notes),
                price |-> its[es[i].item].price,
                quantity |-> es[i].entry.quantity]])

\* ^(.+?)\s*\([^)]+\)$
NotesMatch ==
    Cat(<<Bol, Grp(Lazy(NCls({"\n"}), 1, -1)), Star(S), Ch("("),
          Plus(NCls({")"})), Ch(")"), Eol>>)

\* the item name that the billing report looks the price up with
BillingItemName(item_name_with_notes) ==
    LET Of(notes_match) ==
            IF notes_match # NoMatch
            THEN Strip(Group1(notes_match, item_name_with_notes))
            ELSE item_name_with_notes
    IN  Of(Search(NotesMatch, item_name_with_notes))

\* item_price: the price of the first item of that name, NoneInt for None
ItemPrice(its, item_name) ==
    IF \E n \in 1..Len(its) : its[n].name = item_name
    THEN its[CHOOSE n \in 1..Len(its) :
                /\ its[n].name = item_name
                /\ \A k \in 1..(n - 1) : its[k].name # item_name].price
    ELSE NoneInt

\* total: the grand total of the table of one customer
BillingTotal(its, cp, key) ==
    LET Mine == {i \in 1..Len(cp) : cp[i].key = key}
        Quantity(nm) ==
            SumOf([i \in 1..Len(cp) |-> cp[i].quantity],
                  {i \in Mine : cp[i].item_name = nm})
        Subtotal(nm, item_price) ==
            IF item_price = NoneInt THEN 0 ELSE item_price * Quantity(nm)
    IN  SumOf([nm \in {cp[i].item_name : i \in Mine} |->
                  Subtotal(nm, ItemPrice(its, BillingItemName(nm)))],
              {cp[i].item_name : i \in Mine})

\* the grand total of every customer that the billing report shows
generate_billing_report(its, reg) ==
    LET Totals(cp) ==
            [key \in {k \in DOMAIN reg : \E i \in 1..Len(cp) : cp[i].key = k} |->
                BillingTotal(its, cp, key)]
        Of(es) == Totals(customer_purchases(its, es, EntryKeys(es)))
    IN  Of(CheckedEntries(its))

\* customer_totals of the top spender report
generate_top_spender_report(its) ==
    LET Count(es, ks, key, nm) ==
            SumOf([i \in 1..Len(es) |-> es[i].entry.quantity],
                  {i \in 1..Len(es) : ks[i] = key /\ its[es[i].item].name = nm})
        Totals(es, ks) ==
            [key \in {ks[i] : i \in 1..Len(ks)} |->
                SumOf([n \in 1..Len(its) |->
                          IF \E i \in 1..Len(es) :
                                ks[i] = key /\ its[es[i].item].name = its[n].name
                          THEN its[n].price * Count(es, ks, key, its[n].name)
                          ELSE 0],
                      1..Len(its))]
        Of(es) == Totals(es, EntryKeys(es))
    IN  Of(CheckedEntries(its))

\* total_omzet of the total omzet report
generate_total_omzet_report(its) ==
    LET Of(es) ==
            SumOf([i \in 1..Len(es) |->
                      its[es[i].item].price * es[i].entry.quantity],
                  1..Len(es))
    IN  Of(CheckedEntries(its))

\* main after parse_input_file: the billing report
BillingReport ==
    /\ eof
    /\ reports.billing = <<>>
    /\ reports' = [reports EXCEPT
                      !.billing = <<generate_billing_report(items, customers)>>]
    /\ UNCHANGED <<items, customers, current_item, skip_section, doc, eof, toks,
                   price, calls>>

\* then the top spender report
TopSpenderReport ==
    /\ reports.billing # <<>>
    /\ reports.spender = <<>>
    /\ reports' = [reports EXCEPT
                      !.spender = <<generate_top_spender_report(items)>>]
    /\ UNCHANGED <<items, customers, current_item, skip_section, doc, eof, toks,
                   price, calls>>

\* then the total omzet report
OmzetReport ==
    /\ reports.spender # <<>>
    /\ reports.omzet = <<>>
    /\ reports' = [reports EXCEPT
                      !.omzet = <<generate_total_omzet_report(items)>>]
    /\ UNCHANGED <<items, customers, current_item, skip_section, doc, eof, toks,
                   price, calls>>

Next ==
    \/ \E k \in 1..Len(Lines) : ReadLine(k)
    \/ EndOfInput
    \/ BillingReport
    \/ TopSpenderReport
    \/ OmzetReport

Spec == Init /\ [][Next]_vars

(***************************************************************************)
(* extract_price on its own: a text is put together from the pieces that   *)
(* make the three notations, and the function is applied to it.            *)
(***************************************************************************)
\* the pieces: '4,1', '2', '1.000', 'jt', 'rb', ' '
Tokens ==
    << <<"4", ",", "1">>, <<"2">>, <<"1", ".", "0", "0", "0">>,
       <<"j", "t">>, <<"r", "b">>, <<" ">> >>

\* the most pieces of a text
MaxTok == 4

RECURSIVE TextOf(_)
\* the text a sequence of pieces writes
TextOf(ts) == IF ts = <<>> THEN <<>> ELSE Tokens[Head(ts)] \o TextOf(Tail(ts))

\* the argument text grows by one piece
AddToken(t) ==
    /\ price = <<>>
    /\ Len(toks) < MaxTok
    /\ toks' = Append(toks, t)
    /\ UNCHANGED <<price, items, customers, current_item, skip_section, doc, eof,
                   reports, calls>>

\* the call extract_price(text)
Extract ==
    /\ price = <<>>
    /\ price' = <<extract_price(TextOf(toks))>>
    /\ UNCHANGED <<toks, items, customers, current_item, skip_section, doc, eof,
                   reports, calls>>

NextPrice ==
    \/ \E t \in 1..Len(Tokens) : AddToken(t)
    \/ Extract

SpecPrice == Init /\ [][NextPrice]_vars

(***************************************************************************)
(* get_customer_key on its own: the function is called with names and      *)
(* phones written in several ways.                                         *)
(***************************************************************************)
\* the names: 'Budi', ' BUDI ', 'Ani'
Spellings ==
    << <<"B", "u", "d", "i">>, <<" ", "B", "U", "D", "I", " ">>,
       <<"A", "n", "i">> >>

\* the subscriber numbers, without country code and without leading zero
Subscribers ==
    << <<"8", "1", "2", "3", "4", "5", "6", "7", "8", "9", "0">>,
       <<"6", "2", "8", "1", "2", "3", "4", "5", "6", "7", "8">> >>

\* what stands before the subscriber number: '+62', '62', '0'
Prefixes == << <<"+", "6", "2">>, <<"6", "2">>, <<"0">> >>

\* what stands between the groups of digits: nothing, '-', ' '
Separators == << <<>>, <<"-">>, <<" ">> >>

\* the subscriber number sub after the prefix pre, in groups of three, four
\* and the rest with sep between them
Written(pre, sep, sub) ==
    pre \o (IF Len(pre) > 1 THEN sep ELSE <<>>)
        \o SubSeq(sub, 1, 3) \o sep \o SubSeq(sub, 4, 7) \o sep
        \o SubSeq(sub, 8, Len(sub))

\* the arguments of the calls: every spelling with no phone and with every
\* subscriber number in every notation
Inputs ==
    LET phones == {<<f, g, n>> : f \in 1..Len(Prefixes), g \in 1..Len(Separators),
                                 n \in 1..Len(Subscribers)}
    IN  {[who |-> w, sub |-> 0, name |-> Spellings[w], phone |-> NoneText] :
            w \in 1..Len(Spellings)}
        \cup
        {[who |-> w, sub |-> ph[3], name |-> Spellings[w],
          phone |-> Written(Prefixes[ph[1]], Separators[ph[2]], Subscribers[ph[3]])] :
            w \in 1..Len(Spellings), ph \in phones}

\* the most calls
MaxCalls == 2

\* the call get_customer_key(name, phone)
CallKey(in) ==
    /\ Len(calls) < MaxCalls
    /\ calls' = Append(calls, [in |-> in,
                               key |-> get_customer_key(in.name, in.phone)])
    /\ UNCHANGED <<items, customers, current_item, skip_section, doc, eof, toks,
                   price, reports>>

NextKey == \E in \in Inputs : CallKey(in)

SpecKey == Init /\ [][NextKey]_vars

(***************************************************************************)
(* The document read so far, described line by line without the loop.      *)
(***************************************************************************)
\* the lines of the input that hold the marker phrase
MarkerLines ==
    {k \in 1..Len(Lines) : Contains(normalize_unicode(Strip(Lines[k])), SkipMarker)}

\* the marker lines that hold a price as well
PricedMarkerLines == {k \in MarkerLines : extract_price(Lines[k]) # NoneInt}

\* the lines of the input that are customer lines without the checked mark
UncheckedLines ==
    {k \in 1..Len(Lines) : /\ Parsed[k].kind = "customer"
                           /\ ~Parsed[k].entry.checked}

\* position j of document d stands before every marker line of d
Live(d, j) == \A i \in 1..j : d[i] \notin MarkerLines

\* the positions of d whose line opens an item
ItemLines(d) == {j \in 1..Len(d) : Live(d, j) /\ Parsed[d[j]].kind = "item"}

\* the positions of d whose line is a checked customer line of the item
\* opened at position i
PurchaseLines(d, i) ==
    {j \in (i + 1)..Len(d) :
        /\ Live(d, j)
        /\ Parsed[d[j]].kind = "customer"
        /\ Parsed[d[j]].entry.checked
        /\ \A h \in (i + 1)..j : h \notin ItemLines(d)}

\* the n-th smallest member of a set of numbers
Nth(set, n) == CHOOSE x \in set : Cardinality({y \in set : y < x}) = n - 1

\* the items the document d describes, each with its purchases
ExpectedItems(d) ==
    [n \in 1..Cardinality(ItemLines(d)) |->
        [name |-> Parsed[d[Nth(ItemLines(d), n)]].name,
         price |-> Parsed[d[Nth(ItemLines(d), n)]].price,
         customers |->
            [m \in 1..Cardinality(PurchaseLines(d, Nth(ItemLines(d), n))) |->
                Parsed[d[Nth(PurchaseLines(d, Nth(ItemLines(d), n)), m)]].entry]]]

\* the items the parser holds: those emitted and the one still open
AllItems ==
    IF eof \/ current_item = <<>> THEN items ELSE Append(items, current_item[1])

\* every purchase the parser holds
AllPurchases ==
    UNION {{AllItems[n].customers[m] : m \in 1..Len(AllItems[n].customers)} :
              n \in 1..Len(AllItems)}

\* the checked customer lines of d that reach an item, as lines of the
\* input, in the order of d
RECURSIVE Effective(_, _)
Effective(d, j) ==
    IF j > Len(d) THEN <<>>
    ELSE (IF \E i \in ItemLines(d) : j \in PurchaseLines(d, i)
          THEN <<d[j]>> ELSE <<>>)
         \o Effective(d, j + 1)

KeyOf(p) ==
    IF p.kind = "customer" THEN get_customer_key(p.entry.name, p.entry.phone)
    ELSE <<>>

\* the identity key of each customer line of the input
LineKey == AsList([k \in 1..Len(Lines) |-> KeyOf(Parsed[k])])

\* get_customer_key(c.name, c.phone) for a purchase c: read from LineKey when
\* a line of the input writes this name and this phone, computed otherwise
PurchaseKey(c) ==
    LET Of(same) ==
            IF same # {} THEN LineKey[CHOOSE k \in same : TRUE]
            ELSE get_customer_key(c.name, c.phone)
    IN  Of({k \in 1..Len(Lines) : /\ Parsed[k].kind = "customer"
                                   /\ Parsed[k].entry.name = c.name
                                   /\ Parsed[k].entry.phone = c.phone})

(***************************************************************************)
(* C1.  A customer line that is not classified as checked adds no purchase *)
(* to any item and no entry to the registry: the step that reads such a    *)
(* line leaves the items, the open item and the registry as they were.     *)
(***************************************************************************)
C1_UncheckedAddsNothing ==
    [][(doc' # doc /\ doc'[Len(doc')] \in UncheckedLines)
          => /\ customers' = customers
             /\ current_item' = current_item
             /\ items' = items]_vars

\* C1: an unchecked line with a phone, a quantity token and a parenthetical
\* has just been read while an item is open and no section is skipped
C1_Witness ==
    /\ doc # <<>>
    /\ doc[Len(doc)] = 15
    /\ current_item # <<>>
    /\ ~skip_section
    /\ ~eof

(***************************************************************************)
(* C2.  After any prefix of a document, the key that get_customer_key      *)
(* gives for the name and phone of any purchase, of an emitted item or of  *)
(* the open one, is a key of the registry.                                 *)
(***************************************************************************)
C2_PurchaseKeyRegistered ==
    \A c \in AllPurchases : PurchaseKey(c) \in DOMAIN customers

\* C2: purchases with a phone and without one are stored, some in an
\* emitted item and some in the open one
C2_Witness ==
    /\ ~eof
    /\ items # <<>>
    /\ items[1].customers # <<>>
    /\ current_item # <<>>
    /\ current_item[1].customers # <<>>
    /\ \E c \in AllPurchases : c.phone = NoneText
    /\ \E c \in AllPurchases : c.phone # NoneText

(***************************************************************************)
(* C3.  Once a line with the marker phrase is read the parser skips to the *)
(* end of the input: the flag never falls, and a step that reads a line of *)
(* a document holding a marker line (the marker line itself included,      *)
(* also when it holds a price) opens no item, adds no purchase and adds no *)
(* registry entry.                                                         *)
(***************************************************************************)
C3_SkipToEnd ==
    [][/\ skip_section => skip_section'
       /\ (doc' # doc /\ \E j \in 1..Len(doc') : doc'[j] \in MarkerLines)
             => /\ skip_section'
                /\ current_item' = current_item
                /\ items' = items
                /\ customers' = customers]_vars

\* C3: with an item open, a marker line that holds a price, then an item
\* line and a checked customer line were read
C3_Witness ==
    /\ skip_section
    /\ current_item # <<>>
    /\ \E j \in 1..(Len(doc) - 2) :
          /\ doc[j] \in PricedMarkerLines
          /\ Parsed[doc[j + 1]].kind = "item"
          /\ Parsed[doc[j + 2]].kind = "customer"
          /\ Parsed[doc[j + 2]].entry.checked

(***************************************************************************)
(* C4.  The items are, in the order of the document, one item for each     *)
(* price line read before any marker line, the item still open at the end  *)
(* of the input included; the purchases of an item are the checked         *)
(* customer lines between its price line and the next price line, the      *)
(* marker line or the end, in the order of the document.                   *)
(***************************************************************************)
C4_ItemsFollowDocument ==
    /\ AllItems = ExpectedItems(doc)
    /\ eof => items = ExpectedItems(doc)

\* C4: the input ended in a skipped section entered while the second item
\* was open, and the first item has a purchase
C4_Witness ==
    /\ eof
    /\ skip_section
    /\ Len(items) = 2
    /\ items[1].customers # <<>>

(***************************************************************************)
(* C5.  The registry has one record for each key of the checked customer   *)
(* lines that reach an item; the name and phone of the record are those of *)
(* the first such line with that key; every such line has a purchase of    *)
(* its own.                                                                *)
(***************************************************************************)
C5_FirstOccurrenceWins ==
    LET Holds(eff) ==
            /\ DOMAIN customers = {LineKey[eff[i]] : i \in 1..Len(eff)}
            /\ \A i \in 1..Len(eff) :
                  (\A h \in 1..(i - 1) : LineKey[eff[h]] # LineKey[eff[i]])
                  => customers[LineKey[eff[i]]]
                        = [name |-> Parsed[eff[i]].entry.name,
                           phone |-> Parsed[eff[i]].entry.phone]
            /\ \A key \in DOMAIN customers :
                  Cardinality({i \in 1..Len(eff) : LineKey[eff[i]] = key})
                  = Cardinality({nm \in (1..Len(AllItems)) \X (1..Len(doc)) :
                        /\ nm[2] <= Len(AllItems[nm[1]].customers)
                        /\ PurchaseKey(AllItems[nm[1]].customers[nm[2]]) = key})
    IN  Holds(Effective(doc, 1))

\* C5: two items, each with one purchase, of lines that write the name
\* differently and resolve to one key
C5_Witness ==
    /\ eof
    /\ Len(items) = 2
    /\ Len(items[1].customers) = 1
    /\ Len(items[2].customers) = 1
    /\ items[1].customers[1].name # items[2].customers[1].name
    /\ Cardinality(DOMAIN customers) = 1

(***************************************************************************)
(* The value a price notation writes, in whole numbers.                    *)
(***************************************************************************)
\* the whole part of num * 10^k, num a numeral: digits, at most one "," or
\* ".", digits
TimesPow10(num, k) ==
    LET Parts(ip, fp) ==
            IF Len(fp) <= k
            THEN DigitsVal(ip \o fp, 0) * Pow10(k - Len(fp))
            ELSE DigitsVal(ip \o fp, 0) \div Pow10(Len(fp) - k)
        Split(sep) ==
            Parts(IF sep.st = 0 THEN num ELSE Slice(num, 1, sep.st),
                  IF sep.st = 0 THEN <<>> ELSE Slice(num, sep.en, Len(num) + 1))
    IN  Split(Search(Cls({",", "."}), num))

\* the whole part of a grouped number: "." groups the digits, "," starts
\* the fraction
GroupedValue(num) ==
    LET Whole(comma) ==
            DigitsVal(Replace(IF comma.st = 0 THEN num
                              ELSE Slice(num, 1, comma.st), <<".">>, <<>>), 0)
    IN  Whole(Search(Ch(","), num))

\* the price by the priority jt, rb, grouped number
ClaimedPrice(text) ==
    IF Search(JtPattern, text).st # 0
    THEN TimesPow10(Group1(Search(JtPattern, text), text), 6)
    ELSE IF Search(RbPattern, text).st # 0
    THEN TimesPow10(Group1(Search(RbPattern, text), text), 3)
    ELSE IF Search(long_number_pattern, text).st # 0
    THEN GroupedValue(Group1(Search(long_number_pattern, text), text))
    ELSE NoneInt

(***************************************************************************)
(* C6.  extract_price returns the value of the jt token (number times      *)
(* 1,000,000) when there is one, else the value of the rb token (number    *)
(* times 1,000) when there is one, else the grouped number when there is   *)
(* one, wherever the tokens stand, and nothing when there is none.         *)
(***************************************************************************)
C6_PriceByPriority ==
    price # <<>> => price[1] = ClaimedPrice(TextOf(toks))

(***************************************************************************)
(* C7.  The name of the item of the line 'Towel (red) 109rb' is            *)
(* 'Towel (red)', and the name of the item of the line                     *)
(* 'Towel 125rb (note)' is 'Towel'.                                        *)
(***************************************************************************)
C7_SanitizedNames ==
    (doc # <<>> /\ ~skip_section /\ current_item # <<>>)
       => /\ Lines[doc[Len(doc)]] = <<"T", "o", "w", "e", "l", " ", "(", "r",
                                     "e", "d", ")", " ", "1", "0", "9", "r", "b">>
               => current_item[1].name
                     = <<"T", "o", "w", "e", "l", " ", "(", "r", "e", "d", ")">>
          /\ Lines[doc[Len(doc)]] = <<"T", "o", "w", "e", "l", " ", "1", "2",
                                     "5", "r", "b", " ", "(", "n", "o", "t", "e", ")">>
               => current_item[1].name = <<"T", "o", "w", "e", "l">>

(***************************************************************************)
(* C8.  Every purchase the parser stores has a quantity of at least 1.     *)
(***************************************************************************)
C8_QuantityPositive ==
    \A c \in AllPurchases : c.quantity >= 1

(***************************************************************************)
(* The quantity and the note the parentheticals of a line write.           *)
(***************************************************************************)
\* the contents of the parentheticals of the line, left to right
Contents(line) ==
    AsList([i \in 1..Len(FindAll(notes_pattern, line)) |->
               Strip(Group1(FindAll(notes_pattern, line)[i], line))])

\* the number of a content of the quantity shape: "+", spaces, digits
ShapeNumber(content) ==
    DigitsVal(Group1(MatchAt(Cat(<<Bol, Ch("+"), Star(S), Grp(Plus(D))>>),
                             content, 1), content), 0)

\* the quantity: that of the first parenthetical of the quantity shape, or 1
ClaimedQuantity(line) ==
    IF \E i \in 1..Len(Contents(line)) : IsQuantityFormat(Contents(line)[i])
    THEN ShapeNumber(Contents(line)[
             CHOOSE i \in 1..Len(Contents(line)) :
                /\ IsQuantityFormat(Contents(line)[i])
                /\ \A h \in 1..(i - 1) : ~IsQuantityFormat(Contents(line)[h])])
    ELSE 1

\* the note: the rightmost parenthetical that is not of the quantity shape
ClaimedNote(line) ==
    IF \E i \in 1..Len(Contents(line)) : ~IsQuantityFormat(Contents(line)[i])
    THEN <<"(">>
         \o Contents(line)[
               CHOOSE i \in 1..Len(Contents(line)) :
                  /\ ~IsQuantityFormat(Contents(line)[i])
                  /\ \A h \in (i + 1)..Len(Contents(line)) :
                        IsQuantityFormat(Contents(line)[h])]
         \o <<")">>
    ELSE NoneText

ClaimOf(text) ==
    [quantity |-> ClaimedQuantity(text), notes |-> ClaimedNote(text)]

\* the quantity and the note of each line of the input
LineClaim == AsList([k \in 1..Len(Lines) |-> ClaimOf(Classify(Lines[k]).text)])

\* the purchases of the items, item after item
RECURSIVE PurchasesFrom(_)
PurchasesFrom(n) ==
    IF n > Len(AllItems) THEN <<>>
    ELSE AllItems[n].customers \o PurchasesFrom(n + 1)

(***************************************************************************)
(* C9.  The purchase of a checked customer line has the quantity of the    *)
(* parenthetical of the quantity shape, which is never its note, and as    *)
(* its note the rightmost parenthetical that is not of that shape, or no   *)
(* note when there is none.                                                *)
(***************************************************************************)
C9_QuantityAndNote ==
    Len(PurchasesFrom(1)) = Len(Effective(doc, 1))
       => \A i \in 1..Len(Effective(doc, 1)) :
             /\ PurchasesFrom(1)[i].quantity
                   = LineClaim[Effective(doc, 1)[i]].quantity
             /\ PurchasesFrom(1)[i].notes
                   = LineClaim[Effective(doc, 1)[i]].notes

(***************************************************************************)
(* C10.  The document 'Box of crackers 150rb' / '- [x] Alice +62           *)
(* 811-2222-3333' / '- [ ] Bob 0812-1111-2222' / '- [x] Carol (+3 box)     *)
(* 0813-4444-5555 (urgent)' gives one item 'Box of crackers' of price      *)
(* 150000 with the purchases of Alice (quantity 1, no note) and of Carol   *)
(* (quantity 3, note '(urgent)'), and a registry of the two customers      *)
(* Alice and Carol, each with a phone.                                     *)
(***************************************************************************)
C10_FourLineDocument ==
    (doc = <<1, 2, 3, 4>> /\ eof)
       => /\ Len(items) = 1
          /\ items[1].name = <<"B", "o", "x", " ", "o", "f", " ", "c", "r",
                               "a", "c", "k", "e", "r", "s">>
          /\ items[1].price = 150000
          /\ Len(items[1].customers) = 2
          /\ items[1].customers[1].name = <<"A", "l", "i", "c", "e">>
          /\ items[1].customers[1].quantity = 1
          /\ items[1].customers[1].notes = NoneText
          /\ items[1].customers[2].name = <<"C", "a", "r", "o", "l">>
          /\ items[1].customers[2].quantity = 3
          /\ items[1].customers[2].notes
                = <<"(", "u", "r", "g", "e", "n", "t", ")">>
          /\ Cardinality(DOMAIN customers) = 2
          /\ {customers[key].name : key \in DOMAIN customers}
                = {<<"A", "l", "i", "c", "e">>, <<"C", "a", "r", "o", "l">>}
          /\ \A key \in DOMAIN customers : customers[key].phone # NoneText

(***************************************************************************)
(* The customer lines of the input as the split of name and phone sees     *)
(* them.                                                                   *)
(***************************************************************************)
\* the text of each customer line that is searched for a phone
LineText ==
    AsList([k \in 1..Len(Lines) |->
               IF Parsed[k].kind = "customer"
               THEN CustomerText(normalize_unicode(Strip(Lines[k]))).text
               ELSE <<>>])

TokenOf(phone_match, text) ==
    IF phone_match # NoMatch THEN PhoneToken(phone_match, text) ELSE NoneText

\* the phone of each customer line as it is written, NoneText when no
\* pattern matches
LineToken ==
    AsList([k \in 1..Len(Lines) |-> TokenOf(PhoneMatch(LineText[k]), LineText[k])])

\* the digits of a text
DigitsOf(text) == SelectSeq(text, LAMBDA c : c \in Digit)

\* ph is written as '+62 ' and groups of digits with dashes between them, and
\* its digits are those of the token tok without the leading zero
Rendered(ph, tok) ==
    /\ StartsWith(ph, <<"+", "6", "2", " ">>)
    /\ \A k \in 5..Len(ph) : ph[k] \in Digit \cup {"-"}
    /\ \E k \in 5..Len(ph) : ph[k] = "-"
    /\ ph[5] # "-" /\ ph[Len(ph)] # "-"
    /\ DigitsOf(SubSeq(ph, 5, Len(ph))) = Tail(DigitsOf(tok))

\* the phone ph is what the claim stores for the token tok
DisplayedAs(ph, tok) ==
    IF tok = NoneText THEN ph = NoneText
    ELSE IF StartsWith(tok, <<"0">>) THEN Rendered(ph, tok)
    ELSE ph = tok

(***************************************************************************)
(* C11.  The phone of a Purchase and of the Customer it registers is the   *)
(* token of the line when the token is in +62 form, and when the token     *)
(* starts with 0 it is '+62 ' followed by dash-separated groups that hold  *)
(* the digits of the token without the leading zero, whatever the length   *)
(* of the token.                                                           *)
(***************************************************************************)
C11_DisplayPhone ==
    Len(PurchasesFrom(1)) = Len(Effective(doc, 1))
       => \A i \in 1..Len(Effective(doc, 1)) :
             /\ DisplayedAs(PurchasesFrom(1)[i].phone,
                            LineToken[Effective(doc, 1)[i]])
             /\ (\A j \in 1..(i - 1) :
                    LineKey[Effective(doc, 1)[j]] # LineKey[Effective(doc, 1)[i]])
                => DisplayedAs(customers[LineKey[Effective(doc, 1)[i]]].phone,
                               LineToken[Effective(doc, 1)[i]])

\* the keys of the customers that have a Purchase
Buyers == {LineKey[Effective(doc, 1)[i]] : i \in 1..Len(Effective(doc, 1))}

\* the sum of item price x quantity over the Purchases of a customer, each
\* Purchase with the price of the item it stands under
ExpectedTotal(key) ==
    SumOf([i \in 1..Len(Effective(doc, 1)) |->
              items[Entries(items, 1)[i].item].price
                 * Entries(items, 1)[i].entry.quantity],
          {i \in 1..Len(Effective(doc, 1)) : LineKey[Effective(doc, 1)[i]] = key})

(***************************************************************************)
(* C12.  Once the reports are written, the billing report shows every      *)
(* customer that has a Purchase, with a grand total that is the sum of     *)
(* item price x quantity over the Purchases of that customer; the grand    *)
(* totals add up to the total omzet, and each is the total that the top    *)
(* spender report computes for the customer.                               *)
(***************************************************************************)
C12_BillingTotals ==
    reports.omzet # <<>>
       => /\ DOMAIN reports.billing[1] = Buyers
          /\ \A key \in DOMAIN reports.billing[1] :
                reports.billing[1][key] = ExpectedTotal(key)
          /\ SumOf(reports.billing[1], DOMAIN reports.billing[1]) = reports.omzet[1]
          /\ DOMAIN reports.spender[1] = Buyers
          /\ \A key \in DOMAIN reports.billing[1] \cap DOMAIN reports.spender[1] :
                reports.spender[1][key] = reports.billing[1][key]

\* the lines of the input in which extract_price finds no price
NoPriceLines ==
    {k \in 1..Len(Lines) : extract_price(normalize_unicode(Strip(Lines[k]))) = NoneInt}

\* the checked customer lines of the input
CheckedLines ==
    {k \in 1..Len(Lines) : Parsed[k].kind = "customer" /\ Parsed[k].entry.checked}

(***************************************************************************)
(* C13, as it is claimed.  A line without a detected price that is read    *)
(* while no item is open changes neither the items nor the registry nor    *)
(* the state of the parser.                                                *)
(***************************************************************************)
C13_NoItemNoEffectAnyLine ==
    [][(doc' # doc /\ current_item = <<>> /\ doc'[Len(doc')] \in NoPriceLines)
          => /\ items' = items
             /\ customers' = customers
             /\ current_item' = current_item
             /\ skip_section' = skip_section]_vars

(***************************************************************************)
(* C13, amended.  A line without a detected price and without the marker   *)
(* phrase that is read while no item is open changes neither the items nor *)
(* the registry nor the state of the parser, also when it is a checked     *)
(* customer line.  (A line with the marker phrase sets skip_section in     *)
(* every state.)                                                           *)
(***************************************************************************)
C13_NoItemNoEffect ==
    [][(/\ doc' # doc
        /\ current_item = <<>>
        /\ doc'[Len(doc')] \in NoPriceLines \ MarkerLines)
          => /\ items' = items
             /\ customers' = customers
             /\ current_item' = current_item
             /\ skip_section' = skip_section]_vars

\* a checked customer line was read before any item line, outside a skipped
\* section, and nothing is stored
C13_Witness ==
    /\ doc # <<>>
    /\ doc[Len(doc)] \in CheckedLines
    /\ current_item = <<>>
    /\ ~skip_section
    /\ ~eof
    /\ items = <<>>
    /\ customers = <<>>

\* the text ends with white space and a group in parentheses after it
EndsSpacedParen(nm) ==
    \E i \in 1..(Len(nm) - 2) :
       /\ nm[i] \in SpaceCh
       /\ nm[i + 1] = "("
       /\ nm[Len(nm)] = ")"
       /\ \A k \in (i + 2)..(Len(nm) - 1) : nm[k] # ")"

(***************************************************************************)
(* C14.  No Item has a name that ends with white space followed by a       *)
(* group in parentheses, whatever the number of such groups at the end of  *)
(* the item line.                                                          *)
(***************************************************************************)
C14_NoTrailingParen ==
    \A n \in 1..Len(AllItems) : ~EndsSpacedParen(AllItems[n].name)

\* the match of the price family that gave the price of the text: the jt
\* form, else the rb form, else the grouped number
FiredMatch(text) ==
    LET Long(m) == IF m.st # 0 THEN m ELSE Search(long_number_pattern, text)
        Rb(m) == IF m.st # 0 THEN m ELSE Long(Search(RbPattern, text))
    IN  Rb(Search(JtPattern, text))

RECURSIVE SpaceBefore(_, _)
\* the first position of the white space that ends just before position i
SpaceBefore(text, i) ==
    IF i > 1 /\ text[i - 1] \in SpaceCh THEN SpaceBefore(text, i - 1) ELSE i

\* the text without the match m and the white space before it, trimmed
WithoutMatch(text, m) ==
    Strip(Slice(text, 1, SpaceBefore(text, m.st))
          \o Slice(text, m.en, Len(text) + 1))

\* the name of an item line when the price alone is taken out of it
PriceOnlyName ==
    [k \in 1..Len(Lines) |->
        IF Parsed[k].kind # "item" THEN <<>>
        ELSE LET Of(line) ==
                     remove_notes_from_item_name(
                         WithoutMatch(line, FiredMatch(line)))
             IN  Of(normalize_unicode(Strip(Lines[k])))]

(***************************************************************************)
(* C15.  The name of every Item is its line without the substring matched  *)
(* by the price family that gave its price (and without the trailing note  *)
(* group): a token of another price shape in the line stays in the name.   *)
(***************************************************************************)
C15_OnlyFiredPriceRemoved ==
    \A n \in 1..Len(AllItems) :
        n <= Cardinality(ItemLines(doc))
            => AllItems[n].name = PriceOnlyName[doc[Nth(ItemLines(doc), n)]]

\* the lines of the input that begin with the mark of a checked box
LeadingCheckedLines ==
    {k \in 1..Len(Lines) :
        StartsWith(normalize_unicode(Strip(Lines[k])), <<"-", " ", "[", "x", "]">>)}

(***************************************************************************)
(* C16.  A customer line is checked exactly when it begins with '- [x]':   *)
(* every Purchase of the document comes from a line that begins with the   *)
(* mark, and a mark later in the line adds no Purchase.                    *)
(***************************************************************************)
C16_LeadingMarkerOnly ==
    \A n \in 1..Len(AllItems) :
        n <= Cardinality(ItemLines(doc)) =>
            \A m \in 1..Len(AllItems[n].customers) :
                m <= Cardinality(PurchaseLines(doc, Nth(ItemLines(doc), n))) =>
                    doc[Nth(PurchaseLines(doc, Nth(ItemLines(doc), n)), m)]
                        \in LeadingCheckedLines

(***************************************************************************)
(* The split of name and phone, described over the set of all matches.     *)
(***************************************************************************)
\* every match of every phone pattern in the text, with the place of its
\* pattern in the list
Candidates(text) ==
    UNION {{[p |-> k, m |-> FindAll(phone_patterns[k], text)[i]] :
               i \in 1..Len(FindAll(phone_patterns[k], text))} :
           k \in 1..Len(phone_patterns)}

\* the candidates that end furthest to the right
Rightmost(cands) == {c \in cands : \A d \in cands : d.m.en <= c.m.en}

\* name and phone when the candidate c is taken and the phone is the text tok
SplitAt(text, c, tok) ==
    [name |-> Strip(Slice(text, 1, c.m.st)), phone |-> DisplayPhone(Strip(tok))]

\* the split with ties for the later-collected match and with the phone
\* reaching to the end of the text
LaterSplitOf(text) ==
    LET Of(tied) ==
            IF tied = {} THEN [name |-> Strip(text), phone |-> NoneText]
            ELSE LET c == CHOOSE c \in tied : \A d \in tied : d.p <= c.p
                 IN  SplitAt(text, c, Slice(text, c.m.st, Len(text) + 1))
    IN  Of(Rightmost(Candidates(text)))

\* the split with ties for the earlier-collected match and with the phone
\* being the matched text only
EarlierSplitOf(text) ==
    LET Of(tied) ==
            IF tied = {} THEN [name |-> Strip(text), phone |-> NoneText]
            ELSE LET c == CHOOSE c \in tied : \A d \in tied : c.p <= d.p
                 IN  SplitAt(text, c, Slice(text, c.m.gs, c.m.ge))
    IN  Of(Rightmost(Candidates(text)))

LaterSplit == AsList([k \in 1..Len(Lines) |-> LaterSplitOf(LineText[k])])

EarlierSplit == AsList([k \in 1..Len(Lines) |-> EarlierSplitOf(LineText[k])])

\* every Purchase has the name and the phone that split gives for its line
SplitIs(split) ==
    LET Holds(eff, got) ==
            Len(got) = Len(eff)
               => \A i \in 1..Len(eff) :
                     /\ got[i].name = split[eff[i]].name
                     /\ got[i].phone = split[eff[i]].phone
    IN  Holds(Effective(doc, 1), PurchasesFrom(1))

(***************************************************************************)
(* C17, as stated.  Of the matches that end furthest to the right the      *)
(* later-collected one is taken; the name is the text before it, trimmed,  *)
(* and the phone token is the text from its start to the end of the line.  *)
(***************************************************************************)
C17_LaterMatchToEnd == SplitIs(LaterSplit)

(***************************************************************************)
(* C17, amended.  Of the matches that end furthest to the right the        *)
(* earlier-collected one is taken; the name is the text before it,         *)
(* trimmed, and the phone token is the matched text only; without a match  *)
(* the whole text is the name and the phone is absent.                     *)
(***************************************************************************)
C17_EarlierMatchOnly == SplitIs(EarlierSplit)

\* purchases were read from a line with two matches ending at the same
\* place, from a line with text after the phone and from a line without
\* a phone
C17_Witness ==
    /\ Len(PurchasesFrom(1)) = Len(Effective(doc, 1))
    /\ \E i \in 1..Len(Effective(doc, 1)) :
          Cardinality(Rightmost(Candidates(LineText[Effective(doc, 1)[i]]))) > 1
    /\ \E i \in 1..Len(Effective(doc, 1)) :
          LET c == Rightmost(Candidates(LineText[Effective(doc, 1)[i]]))
          IN  \E d \in c : d.m.en <= Len(LineText[Effective(doc, 1)[i]])
    /\ \E i \in 1..Len(Effective(doc, 1)) :
          Candidates(LineText[Effective(doc, 1)[i]]) = {}

\* the person a spelling of a name stands for: 'Budi' and ' BUDI ' are one
Person == <<1, 1, 2>>

(***************************************************************************)
(* C18.  Two calls give the same key exactly when their names differ in    *)
(* letter case and surrounding white space only and their phones write     *)
(* the same subscriber number, in +62, 62 or 0 form with any separators,   *)
(* or are both absent.                                                     *)
(***************************************************************************)
C18_KeyIdentifies ==
    \A a \in 1..Len(calls), b \in 1..Len(calls) :
        (calls[a].key = calls[b].key)
            <=> /\ Person[calls[a].in.who] = Person[calls[b].in.who]
                /\ calls[a].in.sub = calls[b].in.sub

\* one subscriber number in 62 form and in 0 form with dashes, under names
\* that differ in case and white space, gave one key
C18_Witness ==
    /\ Len(calls) = 2
    /\ calls[1].in.name = Spellings[1]
    /\ calls[2].in.name = Spellings[2]
    /\ StartsWith(calls[1].in.phone, <<"6", "2">>)
    /\ StartsWith(calls[2].in.phone, <<"0", "8", "1", "2", "-">>)
    /\ calls[1].key = calls[2].key

(***************************************************************************)
(* The lines that yield a price, described by the size of their numerals.  *)
(***************************************************************************)
\* the part of the numeral num before the first of the characters seps,
\* without the other characters that are not digits and without leading
\* zeros
IntegerPart(num, seps) ==
    LET NoZeros(ds) ==
            IF \A k \in 1..Len(ds) : ds[k] = "0" THEN <<>>
            ELSE SubSeq(ds, CHOOSE a \in 1..Len(ds) :
                                /\ ds[a] # "0"
                                /\ \A k \in 1..(a - 1) : ds[k] = "0",
                        Len(ds))
        Cut(at) == NoZeros(DigitsOf(SubSeq(num, 1, at - 1)))
    IN  Cut(CHOOSE at \in 1..(Len(num) + 1) :
                /\ at = Len(num) + 1 \/ num[at] \in seps
                /\ \A k \in 1..(at - 1) : num[k] \notin seps)

\* a number with the integer digits ds, followed by zeros more digits, is
\* above every float: it has more than 309 digits, or 309 digits of which
\* the first is 2 or more (the largest float has 309 digits and starts
\* with 17)
TooLarge(ds, zeros) ==
    \/ Len(ds) + zeros > 309
    \/ Len(ds) + zeros = 309 /\ ds[1] \notin {"0", "1"}

\* a price family matches the text with a numeral that can be converted
Yields(text) ==
    LET Suffix(m, zeros) ==
            /\ m.st # 0
            /\ ~TooLarge(IntegerPart(Group1(m, text), {",", "."}), zeros)
        Long(m) ==
            /\ m.st # 0
            /\ ~TooLarge(IntegerPart(Group1(m, text), {","}), 0)
    IN  \/ Suffix(Search(JtPattern, text), 6)
        \/ Suffix(Search(RbPattern, text), 3)
        \/ Long(Search(long_number_pattern, text))

\* the lines of the input on which no family yields a value
NoValueLines ==
    {k \in 1..Len(Lines) : ~Yields(normalize_unicode(Strip(Lines[k])))}

\* those of them that a family matches, with a numeral that cannot be
\* converted
UnconvertibleLines ==
    {k \in NoValueLines :
        LET Matched(text) ==
                \/ Search(JtPattern, text).st # 0
                \/ Search(RbPattern, text).st # 0
                \/ Search(long_number_pattern, text).st # 0
        IN  Matched(normalize_unicode(Strip(Lines[k])))}

C20_NamesNotEmpty ==
    /\ \A c \in AllPurchases : c.name # <<>>
    /\ \A key \in DOMAIN customers : customers[key].name # <<>>

====
